---- MODULE Spec2Model ----
(***************************************************************************)
(* Model of two pieces of the block editor:                                *)
(*   - the style hook (packages/block-editor/src/hooks/style.js):          *)
(*     getCSSVariables, getInlineStyles, addAttribute, addSaveProps,       *)
(*     addEditProps;                                                       *)
(*   - the reusable block edit component                                   *)
(*     (packages/block-library/src/block/edit.js): ReusableBlockEdit.      *)
(*                                                                         *)
(* Strings whose characters matter (object keys, CSS variable names) are   *)
(* sequences of one-character strings, so that kebabCase and the string    *)
(* concatenations of the code are computed, not assumed.                   *)
(***************************************************************************)
EXTENDS Integers, Sequences, FiniteSets, TLC

(***************************************************************************)
(* Bounds of the model.                                                    *)
(***************************************************************************)
\* total number of entries (at all nesting levels) of an enumerated StyleConfig
MaxNodes == 3
\* number of entries of a nested container of an enumerated inline-path config
MaxKids == 2
\* number of wrappers installed on one descriptor's getEditWrapperProps
MaxWraps == 2
\* number of addSaveProps / getEditWrapperProps calls after a registration
MaxCalls == 1
\* number of successive addSaveProps calls of one run of SpecSave
MaxSaves == 2
\* number of versions of the reusable block the store goes through in one run
MaxVer == 3

(***************************************************************************)
(* Characters and lodash's kebabCase.                                      *)
(***************************************************************************)
LowerSeq == <<"a","b","c","d","e","f","g","h","i","j","k","l","m",
              "n","o","p","q","r","s","t","u","v","w","x","y","z">>
UpperSeq == <<"A","B","C","D","E","F","G","H","I","J","K","L","M",
              "N","O","P","Q","R","S","T","U","V","W","X","Y","Z">>
Digits == {"0","1","2","3","4","5","6","7","8","9"}

\* the character class lodash's word patterns put a character in; every
\* character that is not an ASCII letter or digit ("-", "_", " ") is a break
Class(c) ==
    IF \E i \in 1..Len(LowerSeq) : LowerSeq[i] = c THEN "lower"
    ELSE IF \E i \in 1..Len(UpperSeq) : UpperSeq[i] = c THEN "upper"
    ELSE IF c \in Digits THEN "digit"
    ELSE "break"

\* String.prototype.toLowerCase on one character
toLowerCase(c) ==
    IF Class(c) = "upper"
    THEN LowerSeq[CHOOSE i \in 1..Len(UpperSeq) : UpperSeq[i] = c]
    ELSE c

\* the last index of the run of characters of class cls that holds s[i]
RECURSIVE RunEnd(_, _, _)
RunEnd(s, i, cls) ==
    IF i < Len(s) /\ Class(s[i + 1]) = cls THEN RunEnd(s, i + 1, cls) ELSE i

\* lodash words(): the words of s from index i on.  A lower-case run, a digit
\* run and an upper-case run are words; an upper-case letter directly before
\* a lower-case run starts that word ("lineHeight" -> line, Height;
\* "XMLHttp" -> XML, Http); break characters separate words and are dropped.
RECURSIVE words(_, _)
words(s, i) ==
    IF i > Len(s) THEN <<>>
    ELSE LET c == Class(s[i]) IN
         IF c = "break" THEN words(s, i + 1)
         ELSE IF c \in {"digit", "lower"}
         THEN LET j == RunEnd(s, i, c)
              IN  <<SubSeq(s, i, j)>> \o words(s, j + 1)
         ELSE LET j == RunEnd(s, i, "upper")
                  lowerNext == j < Len(s) /\ Class(s[j + 1]) = "lower"
              IN  IF ~lowerNext
                  THEN <<SubSeq(s, i, j)>> \o words(s, j + 1)
                  ELSE IF j = i
                  THEN LET k == RunEnd(s, j + 1, "lower")
                       IN  <<SubSeq(s, i, k)>> \o words(s, k + 1)
                  ELSE <<SubSeq(s, i, j - 1)>> \o words(s, j)

RECURSIVE JoinLower(_, _)
JoinLower(ws, n) ==
    IF n = 0 THEN <<>>
    ELSE JoinLower(ws, n - 1)
         \o (IF n > 1 THEN <<"-">> ELSE <<>>)
         \o [i \in 1..Len(ws[n]) |-> toLowerCase(ws[n][i])]

\* lodash kebabCase(): the lower-cased words joined by single dashes
kebabCase(key) == LET ws == words(key, 1) IN JoinLower(ws, Len(ws))

(***************************************************************************)
(* Keys and values of the style configs.                                   *)
(***************************************************************************)
K_typography == <<"t","y","p","o","g","r","a","p","h","y">>
K_lineHeight == <<"l","i","n","e","H","e","i","g","h","t">>
K_line_height == <<"l","i","n","e","-","h","e","i","g","h","t">>
K_color == <<"c","o","l","o","r">>
K_text == <<"t","e","x","t">>
K_background == <<"b","a","c","k","g","r","o","u","n","d">>
K_backgroundColor == <<"b","a","c","k","g","r","o","u","n","d","C","o","l","o","r">>

\* the keys of the enumerated configs: two spellings of one name, and a
\* second name
Keys == {K_lineHeight, K_line_height, K_color}

\* scalar leaf values: a truthy string and a falsy one (the empty string)
Vals == {"1.5", ""}
Falsy(v) == v = ""

\* a value of a config: a scalar leaf or a nested container
Leaf(v) == [isObj |-> FALSE, val |-> v, kids |-> <<>>]
Node(kids) == [isObj |-> TRUE, val |-> "", kids |-> kids]

\* the keys of a config (a sequence of entries in key iteration order)
KeysOf(config) == {config[i].key : i \in 1..Len(config)}

\* the entries of total size s: a leaf, or a container whose config has s - 1
\* entries; table[m + 1] holds the configs with exactly m entries
EntriesOfSize(table, s) ==
    {[key |-> k, value |-> Leaf(v)] : k \in Keys, v \in (IF s = 1 THEN Vals ELSE {})}
    \cup {[key |-> k, value |-> Node(c)] : k \in Keys, c \in table[s]}

\* the configs with exactly n entries in total, keys distinct in each container
ConfigsOfSize(table, n) ==
    UNION { { <<p[1]>> \o p[2] :
                p \in {q \in EntriesOfSize(table, s) \X table[n - s + 1] :
                          q[1].key \notin KeysOf(q[2])} }
            : s \in 1..n }

\* <<configs with 0 entries, with 1 entry, ..., with n entries>>
RECURSIVE ConfigTable(_)
ConfigTable(n) ==
    IF n = 0 THEN << {<<>>} >>
    ELSE LET table == ConfigTable(n - 1) IN Append(table, ConfigsOfSize(table, n))

\* every config of at most MaxNodes entries over Keys and Vals
TreeConfigs == LET table == ConfigTable(MaxNodes) IN UNION {table[i] : i \in 1..Len(table)}

\* configs over the keys the inline mapping reads: typography and color are
\* each absent, a scalar, or a container of at most MaxKids scalar entries
InlineSubKeys == <<K_lineHeight, K_background, K_text>>
Absent == "absent"

KidConfigs ==
    { LET picked == SelectSeq([i \in 1..Len(InlineSubKeys) |-> [key |-> InlineSubKeys[i], v |-> f[i]]],
                              LAMBDA e : e.v # Absent)
      IN  [i \in 1..Len(picked) |-> [key |-> picked[i].key, value |-> Leaf(picked[i].v)]]
      : f \in {g \in [1..Len(InlineSubKeys) -> Vals \cup {Absent}] :
                 Cardinality({i \in 1..Len(InlineSubKeys) : g[i] # Absent}) <= MaxKids} }

TopValues == {Leaf(v) : v \in Vals} \cup {Node(c) : c \in KidConfigs}

\* marks a top-level key that the config does not have
NoEntry == Leaf(Absent)

InlineConfigs ==
    { (IF t = NoEntry THEN <<>> ELSE <<[key |-> K_typography, value |-> t]>>)
      \o (IF c = NoEntry THEN <<>> ELSE <<[key |-> K_color, value |-> c]>>)
      : t \in TopValues \cup {NoEntry}, c \in TopValues \cup {NoEntry} }

StyleConfigs == TreeConfigs \cup InlineConfigs

(***************************************************************************)
(* getCSSVariables (style.js 33-60).                                       *)
(***************************************************************************)
EmptyMap == [k \in {} |-> Leaf("")]

\* result[ key ] = value
Put(m, k, v) == [x \in DOMAIN m \cup {k} |-> IF x = k THEN v ELSE m[x]]

\* { ...a, ...b }
Spread(a, b) == [x \in DOMAIN a \cup DOMAIN b |-> IF x \in DOMAIN b THEN b[x] ELSE a[x]]

\* mapKeys( m, ( _, key ) => p + key )
mapKeysPrefix(m, p) ==
    [x \in {p \o k : k \in DOMAIN m} |-> m[SubSeq(x, Len(p) + 1, Len(x))]]

token == <<"-","-">>
prefix == <<"-","-","w","p">>

\* lodash isObject on a config value
isObject(value) == value.isObj

\* a plausible slip: a falsy leaf is taken for an absent one and skipped
NestedStep_skipFalsy(result, key, value, child) ==
    IF ~isObject(value)
    THEN (IF Falsy(value.val) THEN result ELSE Put(result, kebabCase(key), value))
    ELSE Spread(result, mapKeysPrefix(child, kebabCase(key) \o token))

\* a plausible slip: the child's entries are merged without the parent's key
NestedStep_noParentKey(result, key, value, child) ==
    IF ~isObject(value)
    THEN Put(result, kebabCase(key), value)
    ELSE Spread(result, child)

\* one round of the forEach of getNestedCSSVariables: the entry key -> value,
\* child being getNestedCSSVariables( value ) when value is a container
NestedStep(result, key, value, child) ==
    IF ~isObject(value)
    THEN Put(result, kebabCase(key), value)
    ELSE Spread(result, mapKeysPrefix(child, kebabCase(key) \o token))

\* the accumulator of getNestedCSSVariables after the first n entries of config
RECURSIVE NestedUpTo(_, _)
NestedUpTo(config, n) ==
    IF n = 0 THEN EmptyMap
    ELSE NestedStep(NestedUpTo(config, n - 1), config[n].key, config[n].value,
                    IF isObject(config[n].value)
                    THEN NestedUpTo(config[n].value.kids, Len(config[n].value.kids))
                    ELSE EmptyMap)

getNestedCSSVariables(config) == NestedUpTo(config, Len(config))

getCSSVariables(styles) == mapKeysPrefix(getNestedCSSVariables(styles), prefix \o token)

(***************************************************************************)
(* getInlineStyles (style.js 68-83).                                       *)
(***************************************************************************)
\* lodash has( styles, path ): every key of the path is an own key
RECURSIVE has(_, _)
has(styles, path) ==
    /\ path # <<>>
    /\ \E i \in 1..Len(styles) :
        /\ styles[i].key = Head(path)
        /\ \/ Len(path) = 1
           \/ styles[i].value.isObj /\ has(styles[i].value.kids, Tail(path))

\* lodash get( styles, path ), used where has( styles, path ) holds
RECURSIVE get(_, _)
get(styles, path) ==
    LET i == CHOOSE i \in 1..Len(styles) : styles[i].key = Head(path)
    IN  IF Len(path) = 1 THEN styles[i].value
        ELSE get(styles[i].value.kids, Tail(path))

mappings == <<
    [styleKey |-> K_lineHeight, objectKey |-> <<K_typography, K_lineHeight>>],
    [styleKey |-> K_backgroundColor, objectKey |-> <<K_color, K_background>>],
    [styleKey |-> K_color, objectKey |-> <<K_color, K_text>>] >>

\* a plausible slip: the path is tested for a truthy value, not for existence
InlineStep_truthy(output, styles, m) ==
    IF has(styles, m.objectKey) /\ ~(~get(styles, m.objectKey).isObj
                                      /\ Falsy(get(styles, m.objectKey).val))
    THEN Put(output, m.styleKey, get(styles, m.objectKey))
    ELSE output

\* one round of the forEach over the mapping table
InlineStep(output, styles, m) ==
    IF has(styles, m.objectKey)
    THEN Put(output, m.styleKey, get(styles, m.objectKey))
    ELSE output

RECURSIVE InlineUpTo(_, _)
InlineUpTo(styles, n) ==
    IF n = 0 THEN EmptyMap
    ELSE InlineStep(InlineUpTo(styles, n - 1), styles, mappings[n])

getInlineStyles(styles) == InlineUpTo(styles, Len(mappings))

(***************************************************************************)
(* State.                                                                  *)
(***************************************************************************)
VARIABLES
    config,     \* the StyleConfig handed to the pure functions
    out,        \* [op, map]: the function last applied to config and its result
    flag,       \* window.__unstableSupportsGlobalStyles
    settings,   \* the block type descriptor the filters are applied to
    bag,        \* the prop bag object last handed to addSaveProps
    last,       \* the last filter or callback invocation: inputs and results
    prev,       \* the addSaveProps invocation before the last one
    calls,      \* number of addSaveProps / getEditWrapperProps calls so far
    store,      \* the reusable block of the core/editor store, with its request flags
    comp,       \* the hooks' state of one mounted ReusableBlockEdit
    hist        \* history: a handler has run; since when the component has the block

flatVars == <<config, out>>
pipeVars == <<flag, settings, bag, last, prev, calls>>
editVars == <<store, comp, hist>>
vars == <<config, out, flag, settings, bag, last, prev, calls, store, comp, hist>>

(***************************************************************************)
(* The style filters (style.js 18-24, 91-161).                             *)
(***************************************************************************)
COLOR_SUPPORT_KEY == "__experimentalColor"
LINE_HEIGHT_SUPPRT_KEY == "__experimentalLineHeight"
styleSupportKeys == <<COLOR_SUPPORT_KEY, LINE_HEIGHT_SUPPRT_KEY>>

\* hasBlockSupport( blockType, key ): the descriptor declares the capability
hasBlockSupport(blockType, key) == key \in blockType.supports

\* a plausible slip: a capability the descriptor does not declare counts as
\* supported (hasBlockSupport with a default of true)
hasStyleSupport_defaultTrue(blockType) ==
    \E i \in 1..Len(styleSupportKeys) :
        hasBlockSupport(blockType, styleSupportKeys[i])
        \/ styleSupportKeys[i] \notin blockType.supports

hasStyleSupport(blockType) ==
    \E i \in 1..Len(styleSupportKeys) : hasBlockSupport(blockType, styleSupportKeys[i])

hasGlobalStylesSupport == flag

\* attribute declarations: none, the one addAttribute adds ({ type: 'object' }),
\* and declarations written by the host
Undeclared == "undeclared"
DeclObject == "{type:object}"
DeclHostStyle == "{type:object,default:host}"
DeclHostContent == "{type:string}"

\* a plausible slip: the style declaration is assigned whether or not the
\* descriptor declares its own
addAttribute_alwaysAssign(s) ==
    IF ~hasStyleSupport(s) THEN s
    ELSE [s EXCEPT !.attributes.style = DeclObject]

addAttribute(s) ==
    IF ~hasStyleSupport(s) THEN s
    ELSE IF s.attributes.style = Undeclared
         THEN [s EXCEPT !.attributes.style = DeclObject]
         ELSE s

\* prop bags: style is present or not; other holds the names of the other props
EmptyBag == [hasStyle |-> FALSE, style |-> EmptyMap, other |-> {}]
StyleOf(props) == IF props.hasStyle THEN props.style ELSE EmptyMap

\* the styles argument: attributes.style, {} when it is undefined
StyleArg(attributes) == IF attributes.hasStyle THEN attributes.style ELSE <<>>

\* a plausible slip: the computed values are laid over the existing ones
addSaveProps_computedWins(props, blockType, attributes) ==
    IF ~hasStyleSupport(blockType) THEN props
    ELSE [props EXCEPT
            !.hasStyle = TRUE,
            !.style = IF hasGlobalStylesSupport
                      THEN Spread(StyleOf(props), getCSSVariables(StyleArg(attributes)))
                      ELSE Spread(StyleOf(props), getInlineStyles(StyleArg(attributes)))]

\* a plausible slip: the global-styles flag is not consulted
addSaveProps_noFlag(props, blockType, attributes) ==
    IF ~hasStyleSupport(blockType) THEN props
    ELSE [props EXCEPT
            !.hasStyle = TRUE,
            !.style = Spread(getInlineStyles(StyleArg(attributes)), StyleOf(props))]

addSaveProps(props, blockType, attributes) ==
    IF ~hasStyleSupport(blockType) THEN props
    ELSE [props EXCEPT
            !.hasStyle = TRUE,
            !.style = IF hasGlobalStylesSupport
                      THEN Spread(getCSSVariables(StyleArg(attributes)), StyleOf(props))
                      ELSE Spread(getInlineStyles(StyleArg(attributes)), StyleOf(props))]

\* the original getEditWrapperProps of a descriptor: none, one returning a
\* bag without style, one returning a bag that has a style entry
K_red == <<"r","e","d">>
OrigKinds == {"none", "plain", "styled"}
OrigProps(kind, attributes) ==
    IF kind = "styled"
    THEN [hasStyle |-> TRUE, style |-> Put(EmptyMap, K_color, Leaf("red")), other |-> {"className"}]
    ELSE [hasStyle |-> FALSE, style |-> EmptyMap, other |-> {"className"}]

\* a plausible slip: the wrapper starts from an empty bag and never calls the
\* callback it replaced
StyleWrapper_dropExisting(hasExisting, existing, blockType, attributes) ==
    addSaveProps(EmptyBag, blockType, attributes)

\* the callback addEditProps installs; existing is what the callback it
\* replaced returns
StyleWrapper(hasExisting, existing, blockType, attributes) ==
    addSaveProps(IF hasExisting THEN existing ELSE EmptyBag, blockType, attributes)

\* a wrapper installed by another extension: it extends the previous output
\* with a prop of its own
OtherWrapper(hasExisting, existing) ==
    LET props == IF hasExisting THEN existing ELSE EmptyBag
    IN  [props EXCEPT !.other = @ \cup {"data-align"}]

\* calling layer n of the descriptor's getEditWrapperProps (layer 0 is the
\* original callback): the props returned and the callbacks run, in the order
\* in which their own code ran
RECURSIVE EvalWrapper(_, _, _)
EvalWrapper(s, n, attributes) ==
    IF n = 0 THEN [props |-> OrigProps(s.orig, attributes), log |-> <<0>>]
    ELSE LET hasExisting == n > 1 \/ s.orig # "none"
             inner == IF hasExisting THEN EvalWrapper(s, n - 1, attributes)
                      ELSE [props |-> EmptyBag, log |-> <<>>]
         IN  [props |-> IF s.chain[n] = "style"
                        THEN StyleWrapper(hasExisting, inner.props, s, attributes)
                        ELSE OtherWrapper(hasExisting, inner.props),
              log |-> Append(inner.log, n)]

getEditWrapperProps(s, attributes) == EvalWrapper(s, Len(s.chain), attributes)

addEditProps(s) ==
    IF ~hasStyleSupport(s) THEN s
    ELSE [s EXCEPT !.chain = Append(@, "style")]

\* the attribute values of a block instance
E(k, v) == [key |-> k, value |-> v]
AttrSamples ==
    { [hasStyle |-> FALSE, style |-> <<>>],
      [hasStyle |-> TRUE, style |-> << E(K_color, Node(<< E(K_text, Leaf("1.5")) >>)) >>],
      [hasStyle |-> TRUE, style |->
          << E(K_typography, Node(<< E(K_lineHeight, Leaf("")) >>)),
             E(K_color, Node(<< E(K_text, Leaf("1.5")), E(K_background, Leaf("1.5")) >>)) >>] }

\* the prop bags a caller builds afresh
FreshBags ==
    { EmptyBag,
      [hasStyle |-> TRUE, style |-> Put(EmptyMap, K_color, Leaf("red")), other |-> {"className"}] }

Descriptors ==
    { [supports |-> sup, attributes |-> [style |-> st, content |-> DeclHostContent],
       orig |-> o, chain |-> <<>>] :
        sup \in {{}, {COLOR_SUPPORT_KEY}, {LINE_HEIGHT_SUPPRT_KEY, COLOR_SUPPORT_KEY}},
        st \in {Undeclared, DeclHostStyle},
        o \in OrigKinds }

NoCall == [op |-> "none", flag |-> FALSE, attrs |-> [hasStyle |-> FALSE, style |-> <<>>],
           pre |-> EmptyBag, post |-> EmptyBag, reused |-> FALSE, log |-> <<>>]

(***************************************************************************)
(* ReusableBlockEdit (edit.js 26-198).                                     *)
(***************************************************************************)
NullTitle == "null"
Titles == {"Header", "Footer"}
BlockLists == {<<"core/paragraph">>, <<"core/image">>}
NullBlocks == <<"null">>

\* nothing has happened to the component yet
NoHistory == [userActed |-> FALSE, avail |-> "never"]

\* the store without the reusable block, no request in flight
NoStore == [present |-> FALSE, ver |-> 0, isTemporary |-> FALSE, title |-> NullTitle,
            blocks |-> <<>>, isFetching |-> FALSE, isSaving |-> FALSE]

\* the blocks a fetch can put in the store: saved blocks, which are not temporary
FetchedBlocks ==
    { [present |-> TRUE, ver |-> 1, isTemporary |-> FALSE, title |-> t, blocks |-> b,
       isFetching |-> FALSE, isSaving |-> FALSE] : t \in Titles, b \in BlockLists }

\* the blocks the store can hold when the component mounts: saved ones and
\* newly created, temporary ones, whose first save may be under way
StoredBlocks ==
    FetchedBlocks
    \cup {[f EXCEPT !.isTemporary = TRUE, !.isSaving = s] : f \in FetchedBlocks, s \in BOOLEAN}

\* what useSelect returns (edit.js 70-84); object identity is the version,
\* 0 standing for undefined
theReusableBlock(st) == IF st.present THEN st.ver ELSE 0
isTemporary(st) == IF st.present THEN st.isTemporary ELSE FALSE
title(st) == IF st.present THEN st.title ELSE NullTitle
blocks(st) == IF st.present THEN st.blocks ELSE NullBlocks

Unmounted == [mounted |-> FALSE, isEditing |-> FALSE, localTitle |-> NullTitle,
              localBlocks |-> <<>>, prevRef |-> 0, depBlock |-> 0, depTitle |-> NullTitle,
              dirty |-> FALSE]

\* a plausible slip: the component always starts in preview mode
useStateInitial_preview(st) ==
    [Unmounted EXCEPT !.mounted = TRUE, !.isEditing = FALSE,
                      !.localTitle = title(st),
                      !.localBlocks = IF st.present THEN blocks(st) ELSE <<>>]

\* the useState initialisers of the first render (edit.js 103-107)
useStateInitial(st) ==
    [Unmounted EXCEPT !.mounted = TRUE, !.isEditing = isTemporary(st),
                      !.localTitle = title(st),
                      !.localBlocks = IF st.present THEN blocks(st) ELSE <<>>]

\* usePrevious( theReusableBlock ): the value the ref holds while rendering,
\* which is the value of the render before
usePrevious(c) == c.prevRef

\* the effects that run after a render of state c against store st
\* (edit.js 99, 109-120); first is true for the first render
EffectsComp(c, st, first) ==
    LET prevReusableBlock == usePrevious(c)
        blockChanged == first \/ c.depBlock # theReusableBlock(st)
        titleChanged == first \/ c.depTitle # c.localTitle
        sync == /\ blockChanged \/ titleChanged
                /\ prevReusableBlock # theReusableBlock(st)
                /\ c.localTitle = NullTitle
    IN  [c EXCEPT !.prevRef = theReusableBlock(st),
                  !.depBlock = theReusableBlock(st),
                  !.depTitle = c.localTitle,
                  !.localTitle = IF sync THEN title(st) ELSE @,
                  !.localBlocks = IF sync THEN blocks(st) ELSE @,
                  !.dirty = sync]

\* the first effect asks the store to fetch the block when it is not there
EffectsStore(c, st, first) ==
    IF (first \/ c.depBlock # theReusableBlock(st)) /\ ~st.present
    THEN [st EXCEPT !.isFetching = TRUE]
    ELSE st

(***************************************************************************)
(* Specification of the two pure functions: the config is drawn from the   *)
(* bounded set, the actions apply the functions.                           *)
(***************************************************************************)
InitFlat ==
    /\ config \in StyleConfigs
    /\ out = [op |-> "none", map |-> EmptyMap]
    /\ flag = FALSE
    /\ settings = [supports |-> {}, attributes |-> [style |-> Undeclared, content |-> DeclHostContent],
                   orig |-> "none", chain |-> <<>>]
    /\ bag = EmptyBag
    /\ last = [NoCall EXCEPT !.op = "idle"] @@ [preS |-> settings, postS |-> settings]
    /\ prev = NoCall
    /\ calls = 0
    /\ store = NoStore
    /\ comp = Unmounted
    /\ hist = NoHistory

CallGetCSSVariables ==
    /\ out.op = "none"
    /\ out' = [op |-> "getCSSVariables", map |-> getCSSVariables(config)]
    /\ UNCHANGED <<config, pipeVars, editVars>>

CallGetInlineStyles ==
    /\ out.op = "none"
    /\ out' = [op |-> "getInlineStyles", map |-> getInlineStyles(config)]
    /\ UNCHANGED <<config, pipeVars, editVars>>

NextFlat == CallGetCSSVariables \/ CallGetInlineStyles

SpecFlat == InitFlat /\ [][NextFlat]_vars

(***************************************************************************)
(* Specification of the filters: a descriptor goes through registration    *)
(* (addAttribute, addEditProps, other extensions' wrappers), the host      *)
(* flips the global-styles flag, and props are computed for instances.     *)
(***************************************************************************)
Init ==
    /\ config = <<>>
    /\ out = [op |-> "none", map |-> EmptyMap]
    /\ flag \in BOOLEAN
    /\ settings \in Descriptors
    /\ bag = EmptyBag
    /\ last = NoCall @@ [preS |-> settings, postS |-> settings]
    /\ prev = NoCall
    /\ calls = 0
    /\ store = NoStore
    /\ comp = Unmounted
    /\ hist = NoHistory

\* registration of a block type happens before any of its instances is rendered
Registering == calls = 0

\* the host environment sets window.__unstableSupportsGlobalStyles
SetFlag ==
    /\ flag' = ~flag
    /\ UNCHANGED <<settings, bag, last, prev, calls, flatVars, editVars>>

RegisterAddAttribute ==
    /\ Registering
    /\ settings' = addAttribute(settings)
    /\ last' = [NoCall EXCEPT !.op = "addAttribute", !.flag = flag]
                @@ [preS |-> settings, postS |-> settings']
    /\ UNCHANGED <<flag, bag, prev, calls, flatVars, editVars>>

RegisterAddEditProps ==
    /\ Registering
    /\ Len(settings.chain) < MaxWraps
    /\ settings' = addEditProps(settings)
    /\ last' = [NoCall EXCEPT !.op = "addEditProps", !.flag = flag]
                @@ [preS |-> settings, postS |-> settings']
    /\ UNCHANGED <<flag, bag, prev, calls, flatVars, editVars>>

\* another extension wraps getEditWrapperProps
RegisterOtherWrapper ==
    /\ Registering
    /\ Len(settings.chain) < MaxWraps
    /\ settings' = [settings EXCEPT !.chain = Append(@, "other")]
    /\ last' = [NoCall EXCEPT !.op = "otherWrapper", !.flag = flag]
                @@ [preS |-> settings, postS |-> settings']
    /\ UNCHANGED <<flag, bag, prev, calls, flatVars, editVars>>

\* the save filter runs on the props of an element, built afresh
CallAddSaveProps ==
    /\ calls < MaxCalls
    /\ \E attributes \in AttrSamples, props \in FreshBags :
        LET result == addSaveProps(props, settings, attributes)
        IN  /\ bag' = result
            /\ last' = [op |-> "addSaveProps", flag |-> flag, attrs |-> attributes,
                         pre |-> props, post |-> result, reused |-> FALSE, log |-> <<>>,
                         preS |-> settings, postS |-> settings]
    /\ calls' = calls + 1
    /\ UNCHANGED <<flag, settings, prev, flatVars, editVars>>

\* the editor asks the descriptor for the wrapper props of an instance
CallGetEditWrapperProps ==
    /\ calls < MaxCalls
    /\ settings.chain # <<>> \/ settings.orig # "none"
    /\ \E attributes \in AttrSamples :
        LET r == getEditWrapperProps(settings, attributes)
        IN  /\ bag' = r.props
            /\ last' = [op |-> "getEditWrapperProps", flag |-> flag, attrs |-> attributes,
                         pre |-> EmptyBag, post |-> r.props, reused |-> FALSE, log |-> r.log,
                         preS |-> settings, postS |-> settings]
    /\ calls' = calls + 1
    /\ UNCHANGED <<flag, settings, prev, flatVars, editVars>>

Next ==
    \/ SetFlag
    \/ RegisterAddAttribute
    \/ RegisterAddEditProps
    \/ RegisterOtherWrapper
    \/ CallAddSaveProps
    \/ CallGetEditWrapperProps

Spec == Init /\ [][Next]_vars

(***************************************************************************)
(* Specification of successive addSaveProps calls on one descriptor, on    *)
(* bags built afresh or on the bag the call before returned, while the     *)
(* host flips the global-styles flag.                                      *)
(***************************************************************************)
InitSave ==
    /\ Init
    /\ settings.orig = "none"
    /\ settings.attributes.style = Undeclared

SaveInstance ==
    /\ calls < MaxSaves
    /\ \E attributes \in AttrSamples, reuse \in BOOLEAN, fresh \in FreshBags :
        /\ reuse => (calls > 0 /\ fresh = EmptyBag)
        /\ LET props == IF reuse THEN bag ELSE fresh
               result == addSaveProps(props, settings, attributes)
           IN  /\ bag' = result
               /\ last' = [op |-> "addSaveProps", flag |-> flag, attrs |-> attributes,
                            pre |-> props, post |-> result, reused |-> reuse, log |-> <<>>,
                            preS |-> settings, postS |-> settings]
    /\ prev' = IF last.op = "addSaveProps"
               THEN [op |-> last.op, flag |-> last.flag, attrs |-> last.attrs, pre |-> last.pre,
                     post |-> last.post, reused |-> last.reused, log |-> last.log]
               ELSE NoCall
    /\ calls' = calls + 1
    /\ UNCHANGED <<flag, settings, flatVars, editVars>>

NextSave == SetFlag \/ SaveInstance

SpecSave == InitSave /\ [][NextSave]_vars

(***************************************************************************)
(* Specification of one ReusableBlockEdit: it mounts on a store that holds *)
(* the block or not, renders and runs its effects, the user edits, cancels *)
(* and saves, and the store answers requests and takes updates.            *)
(***************************************************************************)
InitEdit ==
    /\ config = <<>>
    /\ out = [op |-> "none", map |-> EmptyMap]
    /\ flag = FALSE
    /\ settings = [supports |-> {}, attributes |-> [style |-> Undeclared, content |-> DeclHostContent],
                   orig |-> "none", chain |-> <<>>]
    /\ bag = EmptyBag
    /\ last = [NoCall EXCEPT !.op = "idle"] @@ [preS |-> settings, postS |-> settings]
    /\ prev = NoCall
    /\ calls = 0
    /\ store \in StoredBlocks \cup {NoStore}
    /\ comp = Unmounted
    /\ hist = NoHistory

\* the UI the handlers are reached from is rendered once the block is there,
\* and a handler runs on the values of a finished render
Interactive == comp.mounted /\ ~comp.dirty /\ store.present

\* the history after a step: avail is "first" in the first state in which the
\* mounted component has the block, "later" after it
Track(acted) ==
    hist' = [userActed |-> acted,
             avail |-> IF comp'.mounted /\ store'.present
                       THEN (IF hist.avail = "never" THEN "first" ELSE "later")
                       ELSE hist.avail]

\* first render and its effects
Mount ==
    /\ ~comp.mounted
    /\ comp' = EffectsComp(useStateInitial(store), store, TRUE)
    /\ store' = EffectsStore(useStateInitial(store), store, TRUE)
    /\ Track(hist.userActed)
    /\ UNCHANGED <<flatVars, pipeVars>>

\* a render after a change of state or store, and its effects
Render ==
    /\ comp.mounted
    /\ comp.dirty
    /\ comp' = EffectsComp(comp, store, FALSE)
    /\ store' = EffectsStore(comp, store, FALSE)
    /\ Track(hist.userActed)
    /\ UNCHANGED <<flatVars, pipeVars>>

startEditing ==
    /\ Interactive
    /\ ~comp.isEditing
    /\ ~store.isTemporary
    /\ comp' = [comp EXCEPT !.isEditing = TRUE, !.localTitle = title(store),
                             !.localBlocks = blocks(store), !.dirty = TRUE]
    /\ store' = store
    /\ Track(TRUE)
    /\ UNCHANGED <<flatVars, pipeVars>>

\* the state changes of stopEditing()
stopEditingState(c) ==
    [c EXCEPT !.isEditing = FALSE, !.localTitle = NullTitle, !.localBlocks = <<>>,
              !.dirty = TRUE]

\* the Cancel button
stopEditing ==
    /\ Interactive
    /\ comp.isEditing
    /\ comp' = stopEditingState(comp)
    /\ store' = store
    /\ Track(TRUE)
    /\ UNCHANGED <<flatVars, pipeVars>>

setBlocks ==
    /\ Interactive
    /\ comp.isEditing
    /\ \E updatedBlocks \in BlockLists :
        comp' = [comp EXCEPT !.localBlocks = updatedBlocks, !.dirty = TRUE]
    /\ store' = store
    /\ Track(TRUE)
    /\ UNCHANGED <<flatVars, pipeVars>>

setTitle ==
    /\ Interactive
    /\ comp.isEditing
    /\ \E updatedTitle \in Titles :
        comp' = [comp EXCEPT !.localTitle = updatedTitle, !.dirty = TRUE]
    /\ store' = store
    /\ Track(TRUE)
    /\ UNCHANGED <<flatVars, pipeVars>>

\* the Save button: the store takes the local title and blocks and starts
\* saving, and the component stops editing
save ==
    /\ Interactive
    /\ comp.isEditing
    /\ store.ver < MaxVer
    /\ store' = [store EXCEPT !.title = comp.localTitle, !.blocks = comp.localBlocks,
                               !.ver = @ + 1, !.isSaving = TRUE]
    /\ comp' = stopEditingState(comp)
    /\ Track(TRUE)
    /\ UNCHANGED <<flatVars, pipeVars>>

\* the fetch the first effect asked for brings the block
FetchSuccess ==
    /\ store.isFetching
    /\ ~store.present
    /\ store' \in FetchedBlocks
    /\ comp' = [comp EXCEPT !.dirty = TRUE]
    /\ Track(hist.userActed)
    /\ UNCHANGED <<flatVars, pipeVars>>

\* the fetch ends without a block (deleted or unavailable)
FetchFailure ==
    /\ store.isFetching
    /\ ~store.present
    /\ store' = [store EXCEPT !.isFetching = FALSE]
    /\ comp' = [comp EXCEPT !.dirty = TRUE]
    /\ Track(hist.userActed)
    /\ UNCHANGED <<flatVars, pipeVars>>

\* the save ends: the block is a saved one from now on
SaveSuccess ==
    /\ store.isSaving
    /\ store.ver < MaxVer
    /\ store' = [store EXCEPT !.isSaving = FALSE, !.isTemporary = FALSE, !.ver = @ + 1]
    /\ comp' = [comp EXCEPT !.dirty = comp.mounted]
    /\ Track(hist.userActed)
    /\ UNCHANGED <<flatVars, pipeVars>>

\* the block is updated in the store from elsewhere (another instance of it)
StoreUpdate ==
    /\ comp.mounted
    /\ store.present
    /\ ~store.isTemporary
    /\ store.ver < MaxVer
    /\ \E t \in Titles, b \in BlockLists :
        /\ <<t, b>> # <<store.title, store.blocks>>
        /\ store' = [store EXCEPT !.title = t, !.blocks = b, !.ver = @ + 1]
    /\ comp' = [comp EXCEPT !.dirty = TRUE]
    /\ Track(hist.userActed)
    /\ UNCHANGED <<flatVars, pipeVars>>

NextEdit ==
    \/ Mount
    \/ Render
    \/ startEditing
    \/ stopEditing
    \/ setBlocks
    \/ setTitle
    \/ save
    \/ FetchSuccess
    \/ FetchFailure
    \/ SaveSuccess
    \/ StoreUpdate

SpecEdit == InitEdit /\ [][NextEdit]_vars

(***************************************************************************)
(* What the claims speak of, stated without the code's operators: the      *)
(* paths of a config and the variable name of a path.                      *)
(***************************************************************************)
\* every node of a config with the key path that reaches it
RECURSIVE PathsOf(_)
PathsOf(c) ==
    UNION { {[path |-> <<c[i].key>>, value |-> c[i].value]}
            \cup (IF c[i].value.isObj
                  THEN {[path |-> <<c[i].key>> \o q.path, value |-> q.value] :
                            q \in PathsOf(c[i].value.kids)}
                  ELSE {})
            : i \in 1..Len(c) }

LeafPaths(c) == {n \in PathsOf(c) : ~n.value.isObj}

RECURSIVE JoinPath(_)
JoinPath(path) ==
    IF Len(path) = 1 THEN kebabCase(path[1])
    ELSE kebabCase(Head(path)) \o token \o JoinPath(Tail(path))

\* '--wp--' + kebab(k1) + '--' + ... + '--' + kebab(kn)
VarName(path) == <<"-","-","w","p","-","-">> \o JoinPath(path)

\* the entries of a mapping as a set of <<key, value>> pairs
EntriesOf(m) == {<<k, m[k]>> : k \in DOMAIN m}

\* in every container of the config, distinct keys have distinct kebab-case forms
RECURSIVE KebabDistinct(_)
KebabDistinct(c) ==
    /\ \A i, j \in 1..Len(c) : i # j => kebabCase(c[i].key) # kebabCase(c[j].key)
    /\ \A i \in 1..Len(c) : c[i].value.isObj => KebabDistinct(c[i].value.kids)

C8_InlineStyles ==
    out.op = "getInlineStyles" =>
        /\ DOMAIN out.map \subseteq {K_lineHeight, K_backgroundColor, K_color}
        /\ \A p \in { <<K_lineHeight, <<K_typography, K_lineHeight>> >>,
                       <<K_backgroundColor, <<K_color, K_background>> >>,
                       <<K_color, <<K_color, K_text>> >> } :
            LET at == {n \in PathsOf(config) : n.path = p[2]}
            IN  /\ p[1] \in DOMAIN out.map <=> at # {}
                /\ \A n \in at : out.map[p[1]] = n.value
        /\ (config = <<>> => DOMAIN out.map = {})

\* all three paths exist, one of them with a falsy value, and all three keys
\* were produced
C8_Witness ==
    /\ out.op = "getInlineStyles"
    /\ DOMAIN out.map = {K_lineHeight, K_backgroundColor, K_color}
    /\ \E k \in DOMAIN out.map : Falsy(out.map[k].val)

(***************************************************************************)
(* The filters' claims.  The capability test and the computed values are   *)
(* restated here from the claims' words.                                   *)
(***************************************************************************)
\* the descriptor declares colour support or line-height support
DeclaresStyleCapability(s) ==
    s.supports \cap {"__experimentalColor", "__experimentalLineHeight"} # {}

\* what a call computes from attributes.style under the flag value it sampled
ComputedFor(call) ==
    IF call.flag THEN getCSSVariables(StyleArg(call.attrs))
    ELSE getInlineStyles(StyleArg(call.attrs))

\* m holds every entry of sub, with its value
HoldsAll(m, sub) == \A k \in DOMAIN sub : k \in DOMAIN m /\ m[k] = sub[k]

\* C1: after addSaveProps on a descriptor with style support, props.style
\* holds every entry it held before, unchanged, and each computed entry whose
\* key it did not hold; no pre-existing key takes a computed value.
C1_ExistingWins ==
    (last.op = "addSaveProps" /\ DeclaresStyleCapability(last.preS)) =>
        LET before == StyleOf(last.pre)
            computed == ComputedFor(last)
        IN  /\ last.post.hasStyle
            /\ HoldsAll(last.post.style, before)
            /\ \A k \in DOMAIN computed \ DOMAIN before :
                    k \in DOMAIN last.post.style /\ last.post.style[k] = computed[k]
            /\ last.post.other = last.pre.other

\* a computed key was already in the bag with another value, and another
\* computed key was new
C1_Witness ==
    /\ last.op = "addSaveProps"
    /\ DeclaresStyleCapability(last.preS)
    /\ \E k \in DOMAIN ComputedFor(last) \cap DOMAIN StyleOf(last.pre) :
            ComputedFor(last)[k] # StyleOf(last.pre)[k]
    /\ DOMAIN ComputedFor(last) \ DOMAIN StyleOf(last.pre) # {}

\* C2: for a descriptor that declares no style capability, addAttribute and
\* addEditProps return the descriptor unchanged and addSaveProps returns the
\* prop bag unchanged, whatever the flag and the attributes.
C2_NoSupportPassthrough ==
    ~DeclaresStyleCapability(last.preS) =>
        /\ last.op \in {"addAttribute", "addEditProps"} =>
                last.postS = last.preS /\ settings = last.preS
        /\ last.op = "addSaveProps" => last.post = last.pre /\ bag = last.pre

\* addSaveProps ran with the flag on and a non-empty attributes.style for a
\* descriptor without support
C2_Witness ==
    /\ ~DeclaresStyleCapability(last.preS)
    /\ last.op = "addSaveProps"
    /\ last.flag
    /\ DOMAIN getCSSVariables(StyleArg(last.attrs)) # {}
    /\ ~last.post.hasStyle

\* C3: on a descriptor with style support, getEditWrapperProps runs the
\* original callback (if any) and then every wrapper once, in installation
\* order; its result holds every prop and style entry of the original
\* callback unchanged, the computed style entries not already there when a
\* style wrapper is installed, and the prop of every other wrapper; without
\* an original callback nothing else is in it.
C3_Chaining ==
    (last.op = "getEditWrapperProps" /\ DeclaresStyleCapability(last.preS)) =>
        LET s == last.preS
            n == Len(s.chain)
            base == IF s.orig = "none" THEN EmptyBag ELSE OrigProps(s.orig, last.attrs)
            computed == ComputedFor(last)
            result == last.post
        IN  /\ last.log = (IF s.orig = "none" THEN <<>> ELSE <<0>>) \o [i \in 1..n |-> i]
            /\ base.other \subseteq result.other
            /\ HoldsAll(StyleOf(result), StyleOf(base))
            /\ (\E i \in 1..n : s.chain[i] = "style") =>
                    /\ result.hasStyle
                    /\ \A k \in DOMAIN computed \ DOMAIN StyleOf(base) :
                            k \in DOMAIN result.style /\ result.style[k] = computed[k]
            /\ (\E i \in 1..n : s.chain[i] = "other") => "data-align" \in result.other
            /\ s.orig = "none" =>
                    /\ result.other \subseteq {"data-align"}
                    /\ DOMAIN StyleOf(result) \subseteq DOMAIN computed

\* an original callback with a style entry, wrapped twice by addEditProps,
\* was called for an instance whose style computes entries
C3_Witness ==
    /\ last.op = "getEditWrapperProps"
    /\ DeclaresStyleCapability(last.preS)
    /\ last.preS.orig = "styled"
    /\ Cardinality({i \in 1..Len(last.preS.chain) : last.preS.chain[i] = "style"}) >= 2
    /\ DOMAIN ComputedFor(last) \ {K_color} # {}
    /\ "className" \in last.post.other

\* two successive addSaveProps calls with the same descriptor, the same
\* attributes and the same prop bag (the same object again, or an equal one),
\* under different flag values
FlagFlippedPair ==
    /\ last.op = "addSaveProps"
    /\ prev.op = "addSaveProps"
    /\ DeclaresStyleCapability(last.preS)
    /\ last.attrs = prev.attrs
    /\ last.reused \/ last.pre = prev.pre
    /\ last.flag # prev.flag

C5_AddAttribute ==
    (last.op = "addAttribute" /\ DeclaresStyleCapability(last.preS)) =>
        /\ last.postS.attributes.style =
                IF last.preS.attributes.style # Undeclared
                THEN last.preS.attributes.style ELSE DeclObject
        /\ [last.postS EXCEPT !.attributes.style = last.preS.attributes.style] = last.preS
        /\ addAttribute(last.postS) = last.postS
        /\ settings = last.postS

\* addAttribute was applied to a descriptor that an earlier application had
\* given its style declaration
C5_Witness ==
    /\ last.op = "addAttribute"
    /\ DeclaresStyleCapability(last.preS)
    /\ last.preS.attributes.style = DeclObject
    /\ last.postS = last.preS

C10_PreviewShowsStored ==
    (comp.mounted /\ ~comp.dirty /\ store.present /\ ~comp.isEditing) =>
        comp.localBlocks = store.blocks

====
